---- MODULE Spec2Model ----
(***************************************************************************)
(* Model of the dice-mosaic calculator page (src/src/pages/Calculate.tsx)  *)
(* and of the canvas that draws it (DiceCanvas, src/unnamed/part_000).     *)
(*                                                                         *)
(* The page is a React function component.  Its state is the useState      *)
(* cells; a handler runs against the values of the render it was created   *)
(* in, its state updates are applied together when it returns, and the     *)
(* effects whose dependencies changed run after that render.  One action   *)
(* of the model is one handler together with the render and the effects    *)
(* it causes.  A call of processCurrentImage stays in `tasks` from the     *)
(* moment it calls processImage until that promise settles.                *)
(*                                                                         *)
(* Rows and columns are numbered from 1 here and from 0 in the code.       *)
(***************************************************************************)
EXTENDS Integers, Sequences, FiniteSets, TLC

\* ------------------------------------------------------------------ bounds
\* Grid dimensions stand for the width/height settings; the model uses
\* 1..MaxDim so that a whole grid fits in a state.
MaxDim == 2
\* Budgets of user events in one run.
MaxUploads == 1
MaxParamChanges == 1
MaxThemeChanges == 1
\* Calls of processImage started in one run.
MaxCalls == 4
MaxEdits == 2

\* --------------------------------------------------------- value domains
Faces == 1..6
Themes == {"mixed", "black", "white"}
\* The k-th uploaded File object is k; 0 is null.
NoFile == 0
Files == 1..MaxUploads
DimInputs == 1..MaxDim
\* The default of line 20 is an allowed size; here it is the largest one.
DEFAULT_SIZE == MaxDim
ContrastInputs == {50, 100}
BrightnessInputs == {50, 60}
MixedColorInputs == {"#ffcc00", "#00aaff"}
TileColorInputs == {"#ff0000"}
ManualColorInputs == {"#ff0000"}
ForceFaceInputs == {0, 6}
FaceInputs == {2, 5}
Undefined == "undefined"

\* Option values: <<>> is null, <<x>> is a present x.
Null == <<>>
Some(x) == <<x>>
IsNull(o) == o = <<>>
Val(o) == o[1]

Min(a, b) == IF a < b THEN a ELSE b
Max(a, b) == IF a > b THEN a ELSE b

\* ------------------------------------------------------- getFaceColors
\* Line 114 with a and b exchanged.
getFaceColorsSwapped(theme, mixedA, mixedB) ==
  IF theme = "black" THEN [f \in Faces |-> "#000000"]
  ELSE IF theme = "white" THEN [f \in Faces |-> "#FFFFFF"]
  ELSE [f \in Faces |-> IF f % 2 = 1 THEN mixedB ELSE mixedA]

\* Lines 104-115; the empty string stands for an argument that is not
\* given (or empty), which || replaces by the fallback colour.
getFaceColors(theme, mixedA, mixedB) ==
  IF theme = "black" THEN [f \in Faces |-> "#000000"]
  ELSE IF theme = "white" THEN [f \in Faces |-> "#FFFFFF"]
  ELSE LET a == IF mixedA = "" THEN "#FFFFFF" ELSE mixedA
           b == IF mixedB = "" THEN "#222222" ELSE mixedB
       IN [f \in Faces |-> IF f % 2 = 1 THEN a ELSE b]

\* --------------------------------------------------------- processImage
\* The image pipeline (utils/imageProcessor) is not among the sources; it
\* is modelled from sections 4.1-4.3 and 4.7 of the specification: a
\* deterministic function of its arguments that returns `height` rows of
\* `width` faces, each the quantised (optionally inverted) tone-mapped
\* luminance of the sampled region.
Luminance(file, r, c) ==
  LET base == 20 + 120 * (file % 2)
  IN (base + 90 * (r - 1) + 50 * (c - 1)) % 256

ToneMap(lum, contrast, brightness) ==
  LET scaled == (((lum - 128) * contrast) \div 50) + 128
      shifted == scaled + (((brightness - 50) * 255) \div 100)
  IN Max(0, Min(255, shifted))

Quantize(lum, invert) ==
  LET bucket == Min(5, (lum * 6) \div 255)
  IN IF invert THEN 6 - bucket ELSE bucket + 1

processImage(file, contrast, w, h, brightness, invert) ==
  [r \in 1..h |-> [c \in 1..w |->
      Quantize(ToneMap(Luminance(file, r, c), contrast, brightness), invert)]]

\* ------------------------------------------------ override grid (cells)
\* A cell is a record holding the fields that are set on the object:
\* face, color, pipColor.  The empty function stands for `undefined`
\* (a missing row element).
NoCell == <<>>
IsCell(cell) == DOMAIN cell # {}
HasField(cell, k) == k \in DOMAIN cell

\* Line 446 without the spread of the existing cell: { ...patch }.
SpreadPatchOnly(a, b) == b

\* { ...a, ...b }: the fields of b win.
Spread(a, b) == [k \in (DOMAIN a) \cup (DOMAIN b) |-> IF k \in DOMAIN b THEN b[k] ELSE a[k]]

\* processCurrentImage, line 187:
\*   grid.map(row => row.map(v => ({ face: v, color: faceColors[v] })))
initialEditedOtherColor(grid, faceColors) ==
  [r \in DOMAIN grid |-> [c \in DOMAIN grid[r] |-> [face |-> grid[r][c], color |-> faceColors[7 - grid[r][c]]]]]

initialEdited(grid, faceColors) ==
  [r \in DOMAIN grid |-> [c \in DOMAIN grid[r] |-> [face |-> grid[r][c], color |-> faceColors[grid[r][c]]]]]

\* editedGrid && editedGrid[r] && editedGrid[r][c]: the cell, or NoCell
\* when the grid is null or has no element there.
CellAt(edited, r, c) ==
  IF IsNull(edited) THEN NoCell
  ELSE LET g == Val(edited)
       IN IF r \in DOMAIN g /\ c \in DOMAIN g[r] THEN g[r][c] ELSE NoCell

FaceColorOf(faceColors, face) ==
  IF face \in DOMAIN faceColors THEN faceColors[face] ELSE Undefined


\* ------------------------------------------------------ the merge rule
\* A resolved cell is [face, color]; face 0 stands for an undefined face.
UndefFace == 0
Truthy(color) == color # "" /\ color # Undefined

\* downloadCSV, lines 310-316.
CsvResolve(grid, edited, faceColors, r, c) ==
  LET cell == CellAt(edited, r, c)
      face == IF IsCell(cell)
              THEN (IF HasField(cell, "face") THEN cell.face ELSE UndefFace)
              ELSE grid[r][c]
      color == IF IsCell(cell) /\ HasField(cell, "color") /\ Truthy(cell.color)
               THEN cell.color
               ELSE FaceColorOf(faceColors, face)
  IN [face |-> face, color |-> color]

\* DiceCanvas draw loop, part_000 lines 92-98.
CanvasResolve(grid, edited, faceColors, r, c) ==
  LET override == CellAt(edited, r, c)
      diceValue == IF IsCell(override) /\ HasField(override, "face")
                   THEN override.face ELSE grid[r][c]
      fromTable == FaceColorOf(faceColors, diceValue)
      diceColor == IF IsCell(override) /\ HasField(override, "color") /\ Truthy(override.color)
                   THEN override.color
                   ELSE IF Truthy(fromTable) THEN fromTable ELSE "#ffffff"
  IN [face |-> diceValue, color |-> diceColor]

\* Edit panel, Calculate.tsx lines 655-657 (?? tests for null/undefined,
\* and the table is indexed by the grid value, not by the resolved face).
PanelResolve(grid, edited, faceColors, r, c) ==
  LET cell == CellAt(edited, r, c)
      val == grid[r][c]
      fromTable == FaceColorOf(faceColors, val)
      color == IF IsCell(cell) /\ HasField(cell, "color") THEN cell.color
               ELSE IF fromTable # Undefined THEN fromTable ELSE "#ffffff"
      face == IF IsCell(cell) /\ HasField(cell, "face") THEN cell.face ELSE val
  IN [face |-> face, color |-> color]

\* ------------------------------------------------------------ the pips
\* drawDiceFace (utils/diceDrawing) is not among the sources; the colour
\* of its pips is modelled from section 4.6 of the specification: black
\* or white, whichever contrasts more with the fill colour it is given.
DarkFills == {"#000000", "#222222", "#555555", "#ff0000"}
PipColorFor(fill) == IF fill \in DarkFills THEN "#ffffff" ELSE "#000000"

\* DiceCanvas draw loop, part_000 lines 106-109: the pips of a cell are
\* drawn by drawDiceFace from the cell's fill colour; the override's
\* pipColor is not handed over.
CanvasPip(grid, edited, faceColors, r, c) ==
  PipColorFor(CanvasResolve(grid, edited, faceColors, r, c).color)

\* ------------------------------------------------------- applyTileEdit
\* The updater of lines 443-448 applied to a non-null grid g: every row
\* and cell is copied, then copy[r][c] = { ...copy[r][c], ...patch }.
\* Writing past the end of a row lengthens it (the elements in between
\* are holes); r past the last row throws a TypeError.
EditThrows(g, r) == r \notin DOMAIN g

PatchRowWholeRow(row, c, patch) ==
  [k \in 1..Max(Len(row), c) |->
     IF k <= Len(row) THEN Spread(row[k], patch) ELSE IF k = c THEN patch ELSE NoCell]

PatchRow(row, c, patch) ==
  [k \in 1..Max(Len(row), c) |->
     IF k = c THEN Spread(IF k <= Len(row) THEN row[k] ELSE NoCell, patch)
     ELSE IF k <= Len(row) THEN row[k] ELSE NoCell]

applyTileEdit(prev, r, c, patch) ==
  IF IsNull(prev) THEN prev
  ELSE LET g == Val(prev)
       IN Some([k \in DOMAIN g |-> IF k = r THEN PatchRow(g[k], c, patch) ELSE g[k]])


\* =================================================================== state
VARIABLES
  width, height, contrast, brightness,   \* numeric settings (lines 42-47)
  diceTheme, mixedColor1, mixedColor2,   \* theme and mixed palette (72, 385-386)
  diceFaceColor, pipColor, forceFace,    \* manual controls (382-384)
  imageFile,                             \* line 68
  diceGrid, editedGrid, settings,        \* lines 48, 53, 54
  isProcessing,                          \* line 50
  outputDialogOpen, isEditOpen, editingTile,  \* lines 69, 439, 440
  canvas,        \* canvasRef.current: what the last DiceCanvas effect drew
  tasks,         \* processCurrentImage calls awaiting processImage
  timer,         \* the debounce timeout of lines 420-423 is pending
  crashed,       \* a render threw; the page is unmounted
  nextGen,       \* number of processImage calls started so far
  lastDone,      \* the call whose result was stored last
  newestDone,    \* the latest-started call among those whose result was stored
  lastEdit,      \* the arguments of the last applyTileEdit call
  used,          \* user events spent so far, per kind
  toast,         \* the toasts of the last handler that showed any (titles)
  merge,         \* inputs and results of the merge rule applied on its own
  heap,          \* the override grid as objects, for applyTileEdit on its own
  num,           \* the numeric settings with their real values, on their own
  draw           \* one DiceCanvas with its sizes in pixels, on its own

vars == <<width, height, contrast, brightness, diceTheme, mixedColor1, mixedColor2,
          diceFaceColor, pipColor, forceFace, imageFile, diceGrid, editedGrid,
          settings, isProcessing, outputDialogOpen, isEditOpen, editingTile,
          canvas, tasks, timer, crashed, nextGen, lastDone, newestDone, lastEdit, used,
          toast, merge, heap, num, draw>>

paramVars == <<width, height, contrast, brightness, diceTheme, mixedColor1, mixedColor2,
               diceFaceColor, pipColor, forceFace>>
editUiVars == <<outputDialogOpen, isEditOpen, editingTile>>
historyVars == <<lastDone, newestDone>>
benchVars == <<merge, heap, num, draw>>

\* The values a processCurrentImage closure reads (lines 141, 157-166, 174).
Closure ==
  [imageFile |-> imageFile, contrast |-> contrast, width |-> width, height |-> height,
   brightness |-> brightness, diceTheme |-> diceTheme,
   mixedColor1 |-> mixedColor1, mixedColor2 |-> mixedColor2]

\* processCurrentImage up to its await (lines 141-166): with no image it
\* only reports; otherwise it calls processImage and waits.
Starts(cl) == cl.imageFile # NoFile
NewTask(g, cl) == [gen |-> g] @@ cl
Started(T, g, cl) == IF Starts(cl) THEN T \cup {NewTask(g + 1, cl)} ELSE T
GenAfter(g, cl) == IF Starts(cl) THEN g + 1 ELSE g
\* The model follows a run as long as its calls stay within MaxCalls.
WithinCalls == nextGen' <= MaxCalls
\* The toast a call of processCurrentImage shows before it returns or
\* waits (lines 142-146, 152-155).
ProcessToasts(cl) == IF Starts(cl) THEN <<"Processing image">> ELSE <<"No image selected">>
\* Line 278: the theme's name with a capital first letter.
ThemeToast(value) ==
  CASE value = "black" -> "Black Dice Theme"
    [] value = "white" -> "White Dice Theme"
    [] OTHER -> "Mixed Dice Theme"

\* processCurrentImage after the await (lines 168-188), for the call t.
TaskGrid(t) ==
  processImage(t.imageFile, t.contrast, t.width, t.height, t.brightness, t.diceTheme = "black")
TaskFaceColors(t) == getFaceColors(t.diceTheme, t.mixedColor1, t.mixedColor2)
TaskSettings(prev, t) ==
  [prev EXCEPT !.gridSize = "custom", !.gridWidth = t.width, !.gridHeight = t.height,
               !.contrast = t.contrast, !.diceSizeMm = "1.6", !.theme = t.diceTheme,
               !.faceColors = TaskFaceColors(t)]

\* ------------------------------------------------------------- rendering
GridRows(g) == Len(g)
GridCols(g) == IF Len(g) = 0 THEN 0 ELSE Len(g[1])

\* DiceCanvas effect (part_000 lines 31-124): the resolved cell drawn at
\* every position of diceGrid.
Drawn ==
  [rows |-> GridRows(diceGrid), cols |-> GridCols(diceGrid),
   cells |-> [r \in DOMAIN diceGrid |-> [c \in DOMAIN diceGrid[r] |->
                CanvasResolve(diceGrid, editedGrid, settings.faceColors, r, c)]]]

\* Lines 540 and 642, 678: what is on the page.
PreviewVisible == Len(diceGrid) > 0 /\ ~isProcessing
EditorVisible == isEditOpen /\ Len(diceGrid) > 0 /\ ~IsNull(editingTile)

\* Lines 684 and 698: the editor reads diceGrid[r][c] when the override
\* cell has no face (or no color); with r past the last row that throws.
RenderThrows ==
  /\ EditorVisible
  /\ LET r == Val(editingTile).r
         c == Val(editingTile).c
         cell == CellAt(editedGrid, r, c)
     IN /\ ~(HasField(cell, "face") /\ HasField(cell, "color"))
        /\ r \notin DOMAIN diceGrid

\* The render that follows a handler: the open output dialog redraws its
\* canvas (the inline onCanvasReady of line 565 changes on every render,
\* so the effect runs each time); a closed dialog leaves the last canvas
\* in canvasRef.
Render ==
  /\ crashed' = RenderThrows'
  /\ canvas' = IF outputDialogOpen' /\ Len(diceGrid') > 0 /\ ~crashed'
               THEN Some(Drawn') ELSE canvas

Spend(kind, max) ==
  /\ used[kind] < max
  /\ used' = [used EXCEPT ![kind] = @ + 1]

\* ------------------------------------------------------------------ Init
\* The state after the first render and its effects: the [diceTheme]
\* effect (lines 118-123) has replaced the grey ramp of lines 59-66.
InitPage ==
  /\ width = DEFAULT_SIZE /\ height = DEFAULT_SIZE
  /\ contrast = 50 /\ brightness = 50
  /\ diceTheme = "mixed" /\ mixedColor1 = "#ffcc00" /\ mixedColor2 = "#00aaff"
  /\ diceFaceColor = "null" /\ pipColor = "null" /\ forceFace = 0
  /\ imageFile = NoFile
  /\ diceGrid = <<>> /\ editedGrid = Null
  /\ settings = [gridSize |-> "default", gridWidth |-> 0, gridHeight |-> 0,
                 contrast |-> 50, useShading |-> TRUE, diceSizeMm |-> "1.6",
                 theme |-> "mixed",
                 faceColors |-> getFaceColors("mixed", "#ffcc00", "#00aaff")]
  /\ isProcessing = FALSE
  /\ outputDialogOpen = FALSE /\ isEditOpen = FALSE /\ editingTile = Null
  /\ canvas = Null /\ tasks = {} /\ timer = FALSE
  /\ crashed = FALSE /\ nextGen = 0 /\ lastDone = Null /\ newestDone = Null
  /\ lastEdit = Null /\ toast = <<>>
  /\ used = [uploads |-> 0, params |-> 0, themes |-> 0, edits |-> 0]

Init == InitPage /\ merge = Null /\ heap = Null /\ num = Null /\ draw = Null


\* =============================================================== actions
\* ---- handleImageUpload with a real file (lines 206-224), followed by the
\* render and the effects of lines 132-137 and 418-436.  The handler's own
\* call of processCurrentImage still sees the previous imageFile; the
\* [imageFile] effect calls it again with the new one.  When the previous
\* imageFile was null the handler's call returns at once and its finally
\* (line 223) clears isProcessing after the effect has set it.
UploadWithin(file, max) ==
  /\ ~crashed
  /\ file = used.uploads + 1
  /\ Spend("uploads", max)
  /\ LET old == Closure
         new == [old EXCEPT !.imageFile = file]
         T1 == Started(tasks, nextGen, old)
         g1 == GenAfter(nextGen, old)
     IN /\ tasks' = Started(T1, g1, new)
        /\ nextGen' = GenAfter(g1, new)
        /\ WithinCalls
        /\ isProcessing' = Starts(old)
        /\ toast' = ProcessToasts(old) \o ProcessToasts(new)
  /\ imageFile' = file
  /\ timer' = TRUE
  /\ UNCHANGED <<paramVars, diceGrid, editedGrid, settings, editUiVars, historyVars, lastEdit, benchVars>>
  /\ Render

\* An upload within the budget of a run.
HandleImageUpload(file) == UploadWithin(file, MaxUploads)

\* ---- handleImageUpload with an empty file (lines 225-230): the image and
\* the grid are cleared, editedGrid is not; the debounce cleanup (line 423)
\* cancels the timer.
HandleImageClear ==
  /\ ~crashed
  /\ imageFile # NoFile
  /\ imageFile' = NoFile
  /\ diceGrid' = <<>>
  /\ timer' = FALSE
  /\ UNCHANGED <<paramVars, editedGrid, settings, isProcessing, editUiVars, tasks,
                 nextGen, historyVars, used, toast, lastEdit, benchVars>>
  /\ Render

\* ---- the inputs of lines 501-516, 576, 587, 598, 621, 631: a changed
\* value re-renders, and the debounce effect replaces its timer.
ParamChanged ==
  /\ ~crashed
  /\ Spend("params", MaxParamChanges)
  /\ timer' = (imageFile # NoFile)
  /\ UNCHANGED <<imageFile, diceGrid, editedGrid, settings, isProcessing, editUiVars,
                 tasks, nextGen, historyVars, toast, lastEdit, benchVars>>
  /\ Render

SetWidth(v) ==
  /\ v # width /\ width' = v
  /\ UNCHANGED <<height, contrast, brightness, diceTheme, mixedColor1, mixedColor2,
                 diceFaceColor, pipColor, forceFace, lastEdit, benchVars>>
  /\ ParamChanged

SetHeight(v) ==
  /\ v # height /\ height' = v
  /\ UNCHANGED <<width, contrast, brightness, diceTheme, mixedColor1, mixedColor2,
                 diceFaceColor, pipColor, forceFace, lastEdit, benchVars>>
  /\ ParamChanged

SetContrast(v) ==
  /\ v # contrast /\ contrast' = v
  /\ UNCHANGED <<width, height, brightness, diceTheme, mixedColor1, mixedColor2,
                 diceFaceColor, pipColor, forceFace, lastEdit, benchVars>>
  /\ ParamChanged

SetBrightness(v) ==
  /\ v # brightness /\ brightness' = v
  /\ UNCHANGED <<width, height, contrast, diceTheme, mixedColor1, mixedColor2,
                 diceFaceColor, pipColor, forceFace, lastEdit, benchVars>>
  /\ ParamChanged

SetMixedColor1(v) ==
  /\ diceTheme = "mixed"
  /\ v # mixedColor1 /\ mixedColor1' = v
  /\ UNCHANGED <<width, height, contrast, brightness, diceTheme, mixedColor2,
                 diceFaceColor, pipColor, forceFace, lastEdit, benchVars>>
  /\ ParamChanged

SetMixedColor2(v) ==
  /\ diceTheme = "mixed"
  /\ v # mixedColor2 /\ mixedColor2' = v
  /\ UNCHANGED <<width, height, contrast, brightness, diceTheme, mixedColor1,
                 diceFaceColor, pipColor, forceFace, lastEdit, benchVars>>
  /\ ParamChanged

SetDiceFaceColor(v) ==
  /\ v # diceFaceColor /\ diceFaceColor' = v
  /\ UNCHANGED <<width, height, contrast, brightness, diceTheme, mixedColor1, mixedColor2,
                 pipColor, forceFace, lastEdit, benchVars>>
  /\ ParamChanged

SetPipColor(v) ==
  /\ v # pipColor /\ pipColor' = v
  /\ UNCHANGED <<width, height, contrast, brightness, diceTheme, mixedColor1, mixedColor2,
                 diceFaceColor, forceFace, lastEdit, benchVars>>
  /\ ParamChanged

SetForceFace(v) ==
  /\ v # forceFace /\ forceFace' = v
  /\ UNCHANGED <<width, height, contrast, brightness, diceTheme, mixedColor1, mixedColor2,
                 diceFaceColor, pipColor, lastEdit, benchVars>>
  /\ ParamChanged

\* ---- handleThemeChange (lines 268-282) with the render and the effects
\* of lines 118-129 and 418-436.  The handler's call of processCurrentImage
\* reads the theme of the render it was created in; the [diceTheme] effect
\* stores the new colours and, with an image, calls it again.
HandleThemeChange(value) ==
  /\ ~crashed
  /\ Spend("themes", MaxThemeChanges)
  /\ LET old == Closure
         new == [old EXCEPT !.diceTheme = value]
         byHandler == imageFile # NoFile /\ ~isProcessing
         changed == value # diceTheme
         T1 == IF byHandler THEN Started(tasks, nextGen, old) ELSE tasks
         g1 == IF byHandler THEN GenAfter(nextGen, old) ELSE nextGen
     IN /\ tasks' = IF changed THEN Started(T1, g1, new) ELSE T1
        /\ nextGen' = IF changed THEN GenAfter(g1, new) ELSE g1
        /\ WithinCalls
        /\ isProcessing' = (isProcessing \/ byHandler \/ (changed /\ Starts(new)))
        /\ settings' = IF changed
                       THEN [settings EXCEPT !.faceColors = getFaceColors(value, mixedColor1, mixedColor2),
                                             !.theme = value]
                       ELSE settings
        /\ timer' = IF changed THEN imageFile # NoFile ELSE timer
        /\ toast' = (IF byHandler THEN ProcessToasts(old) ELSE <<>>)
                     \o <<ThemeToast(value)>>
                     \o (IF changed /\ imageFile # NoFile THEN ProcessToasts(new) ELSE <<>>)
  /\ diceTheme' = value
  /\ UNCHANGED <<width, height, contrast, brightness, mixedColor1, mixedColor2,
                 diceFaceColor, pipColor, forceFace, imageFile, diceGrid, editedGrid,
                 editUiVars, historyVars, lastEdit, benchVars>>
  /\ Render

\* processCurrentImage without the return of line 147.
GenerateNoReturn ==
  /\ ~crashed
  /\ toast' = IF Starts(Closure) THEN <<"Processing image">>
               ELSE <<"No image selected", "Processing image">>
  /\ tasks' = tasks \cup {NewTask(nextGen + 1, Closure)}
  /\ nextGen' = nextGen + 1
  /\ WithinCalls
  /\ isProcessing' = TRUE
  /\ UNCHANGED <<paramVars, imageFile, diceGrid, editedGrid, settings, editUiVars,
                 timer, historyVars, used, lastEdit, benchVars>>
  /\ Render

\* ---- the Generate button (lines 457, 531): processCurrentImage of the
\* current render.  With no image it shows its toast and returns.
Generate ==
  /\ ~crashed
  /\ toast' = ProcessToasts(Closure)
  /\ tasks' = Started(tasks, nextGen, Closure)
  /\ nextGen' = GenAfter(nextGen, Closure)
  /\ WithinCalls
  /\ isProcessing' = (isProcessing \/ Starts(Closure))
  /\ UNCHANGED <<paramVars, imageFile, diceGrid, editedGrid, settings, editUiVars,
                 timer, historyVars, used, lastEdit, benchVars>>
  /\ Render

\* ---- the debounce timeout fires (lines 420-422).  Every value its
\* closure reads is a dependency of the effect (lines 424-436), so the
\* closure holds the current values.
DebounceExpiry ==
  /\ ~crashed
  /\ timer
  /\ timer' = FALSE
  /\ tasks' = Started(tasks, nextGen, Closure)
  /\ nextGen' = GenAfter(nextGen, Closure)
  /\ WithinCalls
  /\ isProcessing' = TRUE
  /\ toast' = ProcessToasts(Closure)
  /\ UNCHANGED <<paramVars, imageFile, diceGrid, editedGrid, settings, editUiVars,
                 historyVars, used, lastEdit, benchVars>>
  /\ Render

\* ---- processImage resolves for the call t (lines 168-193, 202).
Resolve(t) ==
  /\ ~crashed
  /\ t \in tasks
  /\ tasks' = tasks \ {t}
  /\ diceGrid' = TaskGrid(t)
  /\ settings' = TaskSettings(settings, t)
  /\ editedGrid' = Some(initialEdited(TaskGrid(t), TaskFaceColors(t)))
  /\ isProcessing' = FALSE
  /\ lastDone' = Some(t)
  /\ newestDone' = IF IsNull(newestDone) \/ Val(newestDone).gen < t.gen
                   THEN Some(t) ELSE newestDone
  /\ toast' = <<"Image processed successfully">>
  /\ UNCHANGED <<paramVars, imageFile, editUiVars, timer, nextGen, used, lastEdit, benchVars>>
  /\ Render

\* The catch block of lines 194-200 also dropping the grid.
RejectClearsGrid(t) ==
  /\ ~crashed
  /\ t \in tasks
  /\ tasks' = tasks \ {t}
  /\ isProcessing' = FALSE
  /\ toast' = <<"Error processing image">>
  /\ diceGrid' = <<>>
  /\ UNCHANGED <<paramVars, imageFile, editedGrid, settings, editUiVars,
                 timer, nextGen, historyVars, used, lastEdit, benchVars>>
  /\ Render

\* ---- processImage rejects for the call t (lines 194-203).
Reject(t) ==
  /\ ~crashed
  /\ t \in tasks
  /\ tasks' = tasks \ {t}
  /\ isProcessing' = FALSE
  /\ toast' = <<"Error processing image">>
  /\ UNCHANGED <<paramVars, imageFile, diceGrid, editedGrid, settings, editUiVars,
                 timer, nextGen, historyVars, used, lastEdit, benchVars>>
  /\ Render


\* ---- openOutput (lines 284-299) and the dialog's onOpenChange (560).
\* Opening mounts a DiceCanvas, whose effect draws and hands its canvas to
\* canvasRef.
OpenOutput ==
  /\ ~crashed
  /\ PreviewVisible
  /\ ~outputDialogOpen
  /\ outputDialogOpen' = TRUE
  /\ toast' = <<"Output opened">>
  /\ UNCHANGED <<paramVars, imageFile, diceGrid, editedGrid, settings, isProcessing,
                 isEditOpen, editingTile, tasks, timer, nextGen, historyVars, used, lastEdit, benchVars>>
  /\ Render

CloseOutput ==
  /\ ~crashed
  /\ outputDialogOpen
  /\ outputDialogOpen' = FALSE
  /\ UNCHANGED <<paramVars, toast, imageFile, diceGrid, editedGrid, settings, isProcessing,
                 isEditOpen, editingTile, tasks, timer, nextGen, historyVars, used, lastEdit, benchVars>>
  /\ Render

\* ---- the Edit Mosaic button (line 554).
ToggleEdit ==
  /\ ~crashed
  /\ PreviewVisible
  /\ isEditOpen' = ~isEditOpen
  /\ UNCHANGED <<paramVars, toast, imageFile, diceGrid, editedGrid, settings, isProcessing,
                 outputDialogOpen, editingTile, tasks, timer, nextGen, historyVars, used, lastEdit, benchVars>>
  /\ Render

\* ---- a tile button of the edit panel (lines 654-661) and Done (705).
SelectTile(r, c) ==
  /\ ~crashed
  /\ isEditOpen /\ Len(diceGrid) > 0
  /\ r \in DOMAIN diceGrid /\ c \in DOMAIN diceGrid[r]
  /\ editingTile # Some([r |-> r, c |-> c])
  /\ editingTile' = Some([r |-> r, c |-> c])
  /\ UNCHANGED <<paramVars, toast, imageFile, diceGrid, editedGrid, settings, isProcessing,
                 outputDialogOpen, isEditOpen, tasks, timer, nextGen, historyVars, used, lastEdit, benchVars>>
  /\ Render

DoneEditing ==
  /\ ~crashed
  /\ EditorVisible
  /\ editingTile' = Null
  /\ UNCHANGED <<paramVars, toast, imageFile, diceGrid, editedGrid, settings, isProcessing,
                 outputDialogOpen, isEditOpen, tasks, timer, nextGen, historyVars, used, lastEdit, benchVars>>
  /\ Render

\* ---- the editor's Face select and Color input (lines 683-701): both call
\* applyTileEdit with the tile selected earlier, whatever the grid is now.
TileEdit(patch) ==
  /\ ~crashed
  /\ EditorVisible
  /\ Spend("edits", MaxEdits)
  /\ UNCHANGED <<paramVars, toast, imageFile, diceGrid, settings, isProcessing,
                 outputDialogOpen, isEditOpen, editingTile, tasks, timer, nextGen,
                 historyVars, benchVars>>
  /\ lastEdit' = Some([r |-> Val(editingTile).r, c |-> Val(editingTile).c, patch |-> patch])
  /\ LET r == Val(editingTile).r
         c == Val(editingTile).c
     IN IF ~IsNull(editedGrid) /\ EditThrows(Val(editedGrid), r)
        THEN editedGrid' = editedGrid /\ crashed' = TRUE /\ canvas' = canvas
        ELSE editedGrid' = applyTileEdit(editedGrid, r, c, patch) /\ Render

EditFace(f) ==
  /\ LET cell == IF IsNull(editingTile) THEN NoCell
                 ELSE CellAt(editedGrid, Val(editingTile).r, Val(editingTile).c)
     IN ~(HasField(cell, "face") /\ cell.face = f)
  /\ TileEdit([face |-> f])

EditColor(v) ==
  /\ LET cell == IF IsNull(editingTile) THEN NoCell
                 ELSE CellAt(editedGrid, Val(editingTile).r, Val(editingTile).c)
     IN ~(HasField(cell, "color") /\ cell.color = v)
  /\ TileEdit([color |-> v])

\* ---- downloadCSV (lines 301-340): the header, then one line per cell of
\* diceGrid in row-major order.
Quoted(str) == "\"" \o str \o "\""
FaceString(face) == IF face = UndefFace THEN Undefined ELSE ToString(face)
CsvLine(r, c) ==
  LET cell == CsvResolve(diceGrid, editedGrid, settings.faceColors, r, c)
  IN <<ToString(r), ToString(c), FaceString(cell.face), Quoted(cell.color)>>
RECURSIVE CsvLinesFrom(_, _)
CsvLinesFrom(r, c) ==
  IF r > Len(diceGrid) THEN <<>>
  ELSE IF c > Len(diceGrid[r]) THEN CsvLinesFrom(r + 1, 1)
  ELSE <<CsvLine(r, c)>> \o CsvLinesFrom(r, c + 1)
\* csvRows without the header of lines 304-305.
CsvRowsNoHeader == CsvLinesFrom(1, 1)

CsvRows == <<(<<"Row", "Column", "Face", "Color">>)>> \o CsvLinesFrom(1, 1)

\* Line 302: nothing is written for an empty grid.
CsvOutput == IF Len(diceGrid) = 0 THEN Null ELSE Some(CsvRows)

\* ---- the derived metrics of lines 77-93, recomputed on every render.
\* acc[value] = (acc[value] || 0) + 1
Bump(acc, value) ==
  [k \in (DOMAIN acc) \cup {value} |->
     IF k = value THEN (IF value \in DOMAIN acc THEN acc[value] ELSE 0) + 1 ELSE acc[k]]

RECURSIVE CountRow(_, _, _)
CountRow(acc, row, k) ==
  IF k > Len(row) THEN acc ELSE CountRow(Bump(acc, row[k]), row, k + 1)

RECURSIVE CountRows(_, _, _)
CountRows(acc, grid, r) ==
  IF r > Len(grid) THEN acc ELSE CountRows(CountRow(acc, grid[r], 1), grid, r + 1)

\* Lines 78-83: the object starts empty and gets a key per face met.
diceColorCounts == CountRows(<<>>, diceGrid, 1)

\* diceColorCounts[face] || 0
CountOrZero(counts, face) == IF face \in DOMAIN counts THEN counts[face] ELSE 0

whiteDiceCount == CountOrZero(diceColorCounts, 1)
blackDiceCount == CountOrZero(diceColorCounts, 6)

\* Line 90 with the settings in place of the grid.
actualDiceCountFromSettings == width * height

\* Line 90.
actualDiceCount ==
  IF Len(diceGrid) > 0 THEN Len(diceGrid) * Len(diceGrid[1]) ELSE width * height

\* The handler writes a file, shows a toast and changes no state.
DownloadCSV ==
  /\ ~crashed
  /\ PreviewVisible
  /\ toast' = <<"Download started">>
  /\ UNCHANGED <<paramVars, imageFile, diceGrid, editedGrid, settings, isProcessing,
                 editUiVars, canvas, tasks, timer, crashed, nextGen, historyVars,
                 lastEdit, used, benchVars>>

\* ---- downloadPNG (lines 342-379): an enlarged copy of whatever canvas
\* canvasRef holds; nothing when it holds none.
PngProduced == ~IsNull(canvas)
PngImage == Val(canvas)

DownloadPNG ==
  /\ ~crashed
  /\ PreviewVisible
  /\ toast' = IF PngProduced THEN <<"Download started">> ELSE toast
  /\ UNCHANGED <<paramVars, imageFile, diceGrid, editedGrid, settings, isProcessing,
                 editUiVars, canvas, tasks, timer, crashed, nextGen, historyVars,
                 lastEdit, used, benchVars>>

\* ================================================================== Next
\* Every handler of the page.
Next ==
  \/ \E file \in Files : HandleImageUpload(file)
  \/ HandleImageClear
  \/ \E v \in DimInputs : SetWidth(v)
  \/ \E v \in DimInputs : SetHeight(v)
  \/ \E v \in ContrastInputs : SetContrast(v)
  \/ \E v \in BrightnessInputs : SetBrightness(v)
  \/ \E v \in MixedColorInputs : SetMixedColor1(v)
  \/ \E v \in MixedColorInputs : SetMixedColor2(v)
  \/ \E v \in ManualColorInputs : SetDiceFaceColor(v)
  \/ \E v \in ManualColorInputs : SetPipColor(v)
  \/ \E v \in ForceFaceInputs : SetForceFace(v)
  \/ \E value \in Themes : HandleThemeChange(value)
  \/ Generate
  \/ DebounceExpiry
  \/ \E t \in tasks : Resolve(t)
  \/ \E t \in tasks : Reject(t)
  \/ OpenOutput
  \/ CloseOutput
  \/ ToggleEdit
  \/ \E r \in 1..MaxDim, c \in 1..MaxDim : SelectTile(r, c)
  \/ DoneEditing
  \/ \E f \in FaceInputs : EditFace(f)
  \/ \E v \in TileColorInputs : EditColor(v)
  \/ DownloadCSV
  \/ DownloadPNG

Spec == Init /\ [][Next]_vars

\* The user loads an image and changes settings: the generation pipeline
\* with its debounce and its calls in flight.
NextGeneration ==
  \/ \E file \in Files : HandleImageUpload(file)
  \/ HandleImageClear
  \/ \E v \in DimInputs : SetWidth(v)
  \/ \E v \in DimInputs : SetHeight(v)
  \/ \E v \in ContrastInputs : SetContrast(v)
  \/ \E v \in BrightnessInputs : SetBrightness(v)
  \/ \E v \in MixedColorInputs : SetMixedColor1(v)
  \/ \E v \in MixedColorInputs : SetMixedColor2(v)
  \/ \E v \in ManualColorInputs : SetDiceFaceColor(v)
  \/ \E v \in ManualColorInputs : SetPipColor(v)
  \/ \E v \in ForceFaceInputs : SetForceFace(v)
  \/ \E value \in Themes : HandleThemeChange(value)
  \/ Generate
  \/ DebounceExpiry
  \/ \E t \in tasks : Resolve(t)
  \/ \E t \in tasks : Reject(t)

SpecGeneration == Init /\ [][NextGeneration]_vars

\* Generation with the events that matter when a call aborts or fails:
\* upload, clear, theme change, the Generate button and the timer.
NextFailure ==
  \/ \E file \in Files : HandleImageUpload(file)
  \/ HandleImageClear
  \/ \E value \in Themes : HandleThemeChange(value)
  \/ Generate
  \/ DebounceExpiry
  \/ \E t \in tasks : Resolve(t)
  \/ \E t \in tasks : Reject(t)

SpecFailure == Init /\ [][NextFailure]_vars

\* Generation with the events that change the face colour table: theme
\* and mixed colour changes.
NextTheme ==
  \/ \E file \in Files : HandleImageUpload(file)
  \/ \E v \in MixedColorInputs : SetMixedColor1(v)
  \/ \E v \in MixedColorInputs : SetMixedColor2(v)
  \/ \E value \in Themes : HandleThemeChange(value)
  \/ DebounceExpiry
  \/ \E t \in tasks : Resolve(t)

SpecTheme == Init /\ [][NextTheme]_vars

\* The user loads an image, resizes the grid and removes the image.
NextResize ==
  \/ \E file \in Files : HandleImageUpload(file)
  \/ HandleImageClear
  \/ \E v \in DimInputs : SetWidth(v)
  \/ \E v \in DimInputs : SetHeight(v)
  \/ DebounceExpiry
  \/ \E t \in tasks : Resolve(t)

SpecResize == Init /\ [][NextResize]_vars

\* The user chooses a size and a contrast, uploads an image, perhaps
\* another one right away, and then only watches: the timer fires and
\* every call of processImage resolves.  An upload is followed as long as
\* its calls and the call of its timer stay within MaxCalls.
ReUploads == MaxUploads + 1
CallsOfUpload == IF imageFile = NoFile THEN 2 ELSE 3

UploadAndWatch(file) ==
  /\ nextGen + CallsOfUpload <= MaxCalls
  /\ UploadWithin(file, ReUploads)

NextUpload ==
  \/ \E v \in DimInputs : imageFile = NoFile /\ SetWidth(v)
  \/ \E v \in ContrastInputs : imageFile = NoFile /\ SetContrast(v)
  \/ \E file \in 1..ReUploads : UploadAndWatch(file)
  \/ DebounceExpiry
  \/ \E t \in tasks : Resolve(t)

\* The timeout of line 420 fires after 300 ms; processImage is assumed to
\* resolve.
FairUpload ==
  /\ WF_vars(DebounceExpiry)
  /\ WF_vars(\E t \in tasks : Resolve(t))

SpecUpload == Init /\ [][NextUpload]_vars /\ FairUpload

\* The user loads an image, resizes the grid and edits tiles.
NextEditing ==
  \/ \E file \in Files : HandleImageUpload(file)
  \/ \E v \in DimInputs : SetWidth(v)
  \/ \E v \in DimInputs : SetHeight(v)
  \/ DebounceExpiry
  \/ \E t \in tasks : Resolve(t)
  \/ ToggleEdit
  \/ \E r \in 1..MaxDim, c \in 1..MaxDim : SelectTile(r, c)
  \/ DoneEditing
  \/ \E f \in FaceInputs : EditFace(f)
  \/ \E v \in TileColorInputs : EditColor(v)

SpecEditing == Init /\ [][NextEditing]_vars

\* The user loads an image, changes the contrast, edits tile faces, opens
\* and closes the output dialog and exports.
NextExport ==
  \/ \E file \in Files : HandleImageUpload(file)
  \/ \E v \in ContrastInputs : SetContrast(v)
  \/ DebounceExpiry
  \/ \E t \in tasks : Resolve(t)
  \/ ToggleEdit
  \/ \E r \in 1..MaxDim, c \in 1..MaxDim : SelectTile(r, c)
  \/ \E f \in FaceInputs : EditFace(f)
  \/ OpenOutput
  \/ CloseOutput
  \/ DownloadCSV
  \/ DownloadPNG

SpecExport == Init /\ [][NextExport]_vars


\* ==================================================== the merge rule alone
\* The three consumers of the merge rule applied to one and the same
\* (diceGrid, faceColors, editedGrid), drawn from the inputs below; the
\* page itself stays in its initial state.
PatternBases == {0, 2, 4}
PatternGrid(h, w, b) ==
  [r \in 1..h |-> [c \in 1..w |-> ((b + 2 * (r - 1) + (c - 1)) % 6) + 1]]
MergeGrids == {PatternGrid(h, w, b) : h \in DimInputs, w \in DimInputs, b \in PatternBases}

\* The ramp of lines 59-66 and every table getFaceColors returns.
GreyRamp == <<"#FFFFFF", "#DDDDDD", "#BBBBBB", "#888888", "#555555", "#222222">>
ColorTables ==
  {GreyRamp} \cup {getFaceColors(th, a, b) : th \in Themes, a \in MixedColorInputs, b \in MixedColorInputs}

PipColorInputs == {"#ffffff", "#00ff00"}

\* Cells as DiceCanvasProps allows them (part_000 lines 12-16): absent, or
\* with any of face, color, pipColor set.
CellChoices ==
  {NoCell}
  \cup {[face |-> f] : f \in FaceInputs}
  \cup {[color |-> v] : v \in TileColorInputs}
  \cup {[face |-> f, color |-> v] : f \in FaceInputs, v \in TileColorInputs}
  \cup {[face |-> f, color |-> v, pipColor |-> p] :
          f \in FaceInputs, v \in TileColorInputs, p \in PipColorInputs}

\* Override grids for a grid: null, empty, the generated one, and the
\* generated one with one cell replaced.
OverrideGrids(grid, table) ==
  LET full == initialEdited(grid, table)
  IN {Null, Some(<<>>), Some(full)}
     \cup {Some([full EXCEPT ![r][c] = cell]) :
             r \in DOMAIN grid, c \in 1..Len(grid[1]), cell \in CellChoices}

ResolveAll(Rule(_, _, _, _, _), grid, edited, table) ==
  [r \in DOMAIN grid |-> [c \in DOMAIN grid[r] |-> Rule(grid, edited, table, r, c)]]

InitMerge ==
  /\ InitPage
  /\ heap = Null /\ num = Null /\ draw = Null
  /\ \E grid \in MergeGrids : \E table \in ColorTables :
       \E edited \in OverrideGrids(grid, table) : \E big \in BOOLEAN :
         merge = Some([grid |-> grid, faceColors |-> table, edited |-> edited,
                       bigCells |-> big, fresh |-> FALSE,
                       csv |-> Null, canvas |-> Null, pips |-> Null, panel |-> Null])

MergeFrame == UNCHANGED <<paramVars, imageFile, diceGrid, editedGrid, settings, isProcessing,
                          editUiVars, canvas, tasks, timer, crashed, nextGen, historyVars,
                          lastEdit, used, toast, heap, num, draw>>

\* processCurrentImage lines 186-188 on the drawn grid and table.
MergeInitialize ==
  /\ ~Val(merge).fresh
  /\ merge' = Some([Val(merge) EXCEPT
                      !.edited = Some(initialEdited(Val(merge).grid, Val(merge).faceColors)),
                      !.fresh = TRUE, !.csv = Null, !.canvas = Null, !.pips = Null,
                      !.panel = Null])
  /\ MergeFrame

MergeCsv ==
  /\ IsNull(Val(merge).csv)
  /\ merge' = Some([Val(merge) EXCEPT !.csv =
        Some(ResolveAll(CsvResolve, Val(merge).grid, Val(merge).edited, Val(merge).faceColors))])
  /\ MergeFrame

\* The draw loop of DiceCanvas: fills, and pips when the cells are larger
\* than 6 px and settings.useShading is set (it always is, line 57).
MergeCanvas ==
  /\ IsNull(Val(merge).canvas)
  /\ merge' = Some([Val(merge) EXCEPT
        !.canvas = Some(ResolveAll(CanvasResolve, Val(merge).grid, Val(merge).edited,
                                   Val(merge).faceColors)),
        !.pips = IF Val(merge).bigCells /\ settings.useShading
                 THEN Some(ResolveAll(CanvasPip, Val(merge).grid, Val(merge).edited,
                                      Val(merge).faceColors))
                 ELSE Null])
  /\ MergeFrame

MergePanel ==
  /\ IsNull(Val(merge).panel)
  /\ merge' = Some([Val(merge) EXCEPT !.panel =
        Some(ResolveAll(PanelResolve, Val(merge).grid, Val(merge).edited, Val(merge).faceColors))])
  /\ MergeFrame

NextMerge == MergeInitialize \/ MergeCsv \/ MergeCanvas \/ MergePanel

SpecMerge == InitMerge /\ [][NextMerge]_vars

\* ============================================ the numeric settings alone
\* Width, height, contrast and brightness with the values the page really
\* holds, the handlers that change them, and processCurrentImage up to its
\* call of processImage.  num.calls collects the arguments of every call,
\* num.toast is the last toast, num.last the handler that ran last.
MAX_DICE == 10000
DEFAULT_SIZE_VALUE == 50
\* Handlers run in one numeric run.
MaxNumEvents == 3
\* Values typed into the inputs of lines 501-516 (Number("") is 0; the
\* min and max attributes do not stop the user from typing).
SizeInputs == {0, 10, 100, 200}
LevelInputs == {0, 100, 150}
\* Sizes the step controls may start from.
StepStarts == 10..100

CallArgs(n) ==
  [contrast |-> n.contrast, width |-> n.width, height |-> n.height, brightness |-> n.brightness]

\* increaseSize, lines 233-244.
increaseSizeUncapped(n) ==
  IF n.width * n.height < MAX_DICE
  THEN [n EXCEPT !.width = @ + 10, !.height = @ + 10]
  ELSE [n EXCEPT !.toast = "Maximum size reached"]

increaseSize(n) ==
  IF n.width * n.height < MAX_DICE
  THEN [n EXCEPT !.width = Min(@ + 10, 100), !.height = Min(@ + 10, 100)]
  ELSE [n EXCEPT !.toast = "Maximum size reached"]

\* decreaseSize, lines 246-249.
decreaseSize(n) == [n EXCEPT !.width = Max(@ - 10, 10), !.height = Max(@ - 10, 10)]

\* Lines 251-265.
increaseContrast(n) == [n EXCEPT !.contrast = Min(@ + 10, 100)]
decreaseContrast(n) == [n EXCEPT !.contrast = Max(@ - 10, 0)]
increaseBrightness(n) == [n EXCEPT !.brightness = Min(@ + 10, 100)]
decreaseBrightness(n) == [n EXCEPT !.brightness = Max(@ - 10, 0)]

\* processCurrentImage, lines 141-166: with no image it reports and
\* returns; otherwise it calls processImage with the current values.
processCurrentImageCall(n) ==
  IF ~n.hasImage
  THEN [n EXCEPT !.toast = "No image selected"]
  ELSE [n EXCEPT !.toast = "Processing image", !.calls = @ \cup {CallArgs(n)}]

NumStart(w, h, img) ==
  [width |-> w, height |-> h, contrast |-> 50, brightness |-> 50, hasImage |-> img,
   calls |-> {}, toast |-> "", events |-> 0, last |-> ""]

NumFrame == UNCHANGED <<paramVars, imageFile, diceGrid, editedGrid, settings, isProcessing,
                        editUiVars, canvas, tasks, timer, crashed, nextGen, historyVars,
                        lastEdit, used, toast, merge, heap, draw>>

NumEvent(name, n2) ==
  /\ Val(num).events < MaxNumEvents
  /\ num' = Some([n2 EXCEPT !.events = @ + 1, !.last = name])
  /\ NumFrame

NumSetWidth(v) == v # Val(num).width /\ NumEvent("setWidth", [Val(num) EXCEPT !.width = v])
NumSetHeight(v) == v # Val(num).height /\ NumEvent("setHeight", [Val(num) EXCEPT !.height = v])
NumSetContrast(v) == v # Val(num).contrast /\ NumEvent("setContrast", [Val(num) EXCEPT !.contrast = v])
NumSetBrightness(v) ==
  v # Val(num).brightness /\ NumEvent("setBrightness", [Val(num) EXCEPT !.brightness = v])
NumIncreaseSize == NumEvent("increaseSize", increaseSize(Val(num)))
NumDecreaseSize == NumEvent("decreaseSize", decreaseSize(Val(num)))
NumIncreaseContrast == NumEvent("increaseContrast", increaseContrast(Val(num)))
NumDecreaseContrast == NumEvent("decreaseContrast", decreaseContrast(Val(num)))
NumIncreaseBrightness == NumEvent("increaseBrightness", increaseBrightness(Val(num)))
NumDecreaseBrightness == NumEvent("decreaseBrightness", decreaseBrightness(Val(num)))
\* The Generate button or the debounce timeout, with the current values.
NumProcess == NumEvent("processCurrentImage", processCurrentImageCall(Val(num)))

\* The page as mounted, with or without an image, and every numeric control.
InitNumeric ==
  /\ InitPage
  /\ merge = Null /\ heap = Null /\ draw = Null
  /\ \E img \in BOOLEAN : num = Some(NumStart(DEFAULT_SIZE_VALUE, DEFAULT_SIZE_VALUE, img))

NextNumeric ==
  \/ \E v \in SizeInputs : NumSetWidth(v)
  \/ \E v \in SizeInputs : NumSetHeight(v)
  \/ \E v \in LevelInputs : NumSetContrast(v)
  \/ \E v \in LevelInputs : NumSetBrightness(v)
  \/ NumIncreaseSize
  \/ NumDecreaseSize
  \/ NumIncreaseContrast
  \/ NumDecreaseContrast
  \/ NumIncreaseBrightness
  \/ NumDecreaseBrightness
  \/ NumProcess

SpecNumeric == InitNumeric /\ [][NextNumeric]_vars

\* The size step controls alone, from every size in [10,100].
InitSteps ==
  /\ InitPage
  /\ merge = Null /\ heap = Null /\ draw = Null
  /\ \E w \in StepStarts, h \in StepStarts : num = Some(NumStart(w, h, TRUE))

NextSteps == NumIncreaseSize \/ NumDecreaseSize

SpecSteps == InitSteps /\ [][NextSteps]_vars

\* ================================================= applyTileEdit on objects
\* The override grid as the objects it is made of: a grid is an array of
\* row objects, a row an array of cell objects.  An object is its index in
\* heap.grids, heap.rows or heap.cells; 0 in a row is a hole.  heap.cur is
\* the grid the editedGrid state refers to, heap.snaps the references that
\* were taken earlier together with the value they had then.
SumLens(g, n) == IF n = 0 THEN 0 ELSE LET S[k \in 0..n] == IF k = 0 THEN 0 ELSE S[k - 1] + Len(g[k]) IN S[n]
FlatCells(g) ==
  LET F[k \in 0..Len(g)] == IF k = 0 THEN <<>> ELSE F[k - 1] \o g[k]
  IN F[Len(g)]

Deref(h, gid) ==
  [i \in 1..Len(h.grids[gid]) |->
     LET row == h.rows[h.grids[gid][i]]
     IN [j \in 1..Len(row) |-> IF row[j] = 0 THEN NoCell ELSE h.cells[row[j]]]]

\* New objects for every row and every cell of the value g.
AllocGrid(h, g) ==
  LET nc == Len(h.cells)
      nr == Len(h.rows)
  IN [h EXCEPT
        !.cells = @ \o FlatCells(g),
        !.rows = @ \o [i \in 1..Len(g) |->
                         [j \in 1..Len(g[i]) |->
                            IF IsCell(g[i][j]) THEN nc + SumLens(g, i - 1) + j ELSE 0]],
        !.grids = Append(@, [i \in 1..Len(g) |-> nr + i])]

\* row[c] = id, lengthening the row when c is past its end.
SetAt(row, c, id) ==
  [k \in 1..Max(Len(row), c) |-> IF k = c THEN id ELSE IF k <= Len(row) THEN row[k] ELSE 0]

CellOf(h, rid, c) ==
  IF c \in DOMAIN h.rows[rid] /\ h.rows[rid][c] # 0 THEN h.cells[h.rows[rid][c]] ELSE NoCell

\* Lines 445-447 with the rows of the given grid reused instead of copied.
HeapApplyTileEditShared(h, r, c, patch) ==
  LET old == h.grids[h.cur]
      rid == old[r]
      h2 == [h EXCEPT !.grids = Append(@, old),
                      !.cells = Append(@, Spread(CellOf(h, rid, c), patch)),
                      !.rows[rid] = SetAt(@, c, Len(h.cells) + 1)]
  IN [h2 EXCEPT !.cur = Len(h2.grids)]

\* Lines 445-447: prev.map(row => row.map(cell => ({ ...cell }))) makes
\* new rows and new cells; copy[r][c] = { ...copy[r][c], ...patch } puts
\* one more new cell into the new row r; the new grid is returned.
HeapApplyTileEdit(h, r, c, patch) ==
  LET h1 == AllocGrid(h, Deref(h, h.cur))
      rid == Len(h.rows) + r
      h2 == [h1 EXCEPT !.cells = Append(@, Spread(CellOf(h1, rid, c), patch)),
                       !.rows[rid] = SetAt(@, c, Len(h1.cells) + 1)]
  IN [h2 EXCEPT !.cur = Len(h2.grids)]

EmptyHeap == [cells |-> <<>>, rows |-> <<>>, grids |-> <<>>, cur |-> 0, snaps |-> {},
              value |-> <<>>, edits |-> 0]

InitHeap ==
  /\ InitPage
  /\ merge = Null /\ num = Null /\ draw = Null
  /\ \E h \in DimInputs, w \in DimInputs :
       LET g == initialEdited(PatternGrid(h, w, 0), GreyRamp)
       IN heap = Some([AllocGrid(EmptyHeap, g) EXCEPT !.cur = 1, !.value = g])

HeapFrame == UNCHANGED <<paramVars, imageFile, diceGrid, editedGrid, settings, isProcessing,
                         editUiVars, canvas, tasks, timer, crashed, nextGen, historyVars,
                         lastEdit, used, toast, merge, num, draw>>

\* Someone keeps the current grid: a render's closure, React's previous state.
HeapSnapshot ==
  /\ \A s \in Val(heap).snaps : s.ref # Val(heap).cur
  /\ heap' = Some([Val(heap) EXCEPT !.snaps =
                     @ \cup {[ref |-> Val(heap).cur, value |-> Deref(Val(heap), Val(heap).cur)]}])
  /\ HeapFrame

\* applyTileEdit(r, c, patch) on the current grid; with r past the last
\* row the updater throws and no grid is returned.
HeapEdit(r, c, patch) ==
  /\ Val(heap).edits < MaxEdits
  /\ LET h == Val(heap)
     IN IF r \notin DOMAIN h.grids[h.cur]
        THEN heap' = Some([h EXCEPT !.edits = @ + 1])
        ELSE heap' = Some([HeapApplyTileEdit(h, r, c, patch) EXCEPT
                             !.edits = @ + 1,
                             !.value = Val(applyTileEdit(Some(h.value), r, c, patch))])
  /\ HeapFrame

\* One face patch (line 686) and one colour patch (line 699).
Patches == {[face |-> 5]} \cup {[color |-> v] : v \in TileColorInputs}

NextHeap ==
  \/ HeapSnapshot
  \/ \E r \in 1..MaxDim, c \in 1..MaxDim, patch \in Patches : HeapEdit(r, c, patch)

SpecHeap == InitHeap /\ [][NextHeap]_vars

\* The objects of the current grid hold the value applyTileEdit computes.
HeapHoldsValue == ~IsNull(heap) => Deref(Val(heap), Val(heap).cur) = Val(heap).value

\* ====================================================== the canvas alone
\* One DiceCanvas (part_000) with its sizes in pixels: the props it is
\* given, the space its parent leaves it, the canvas its effect draws and
\* the file downloadPNG makes of that canvas.
PipThreshold == 6
scaleFactor == 2
\* Width and height of the parent element; every column and row count
\* used here divides them.
ContainerInputs == {6, 12, 60}
ZoomInputs == {1, 3}

\* drawDiceFace (utils/diceDrawing) is not among the sources; it is
\* modelled from section 4.4 of the specification: the pip layout of the
\* face above the visibility threshold, one centred dot at or below it.
drawDiceFace(face, size) ==
  IF size > PipThreshold THEN [kind |-> "pips", face |-> face] ELSE [kind |-> "dot", face |-> face]

\* Lines 106-109: drawDiceFace is called for cells larger than 6 px when
\* shading is on; otherwise nothing is drawn on the fill.
DrawMarks(face, size, useShading) ==
  IF size > PipThreshold /\ useShading
  THEN drawDiceFace(face, size)
  ELSE [kind |-> "none", face |-> face]

\* Lines 49-51 and 57.
cellSize(d) ==
  Min(d.maxCanvasWidth \div Len(d.grid[1]), d.maxCanvasHeight \div Len(d.grid))
zoomedCellSize(d) == cellSize(d) * d.zoomLevel
\* Line 60: Math.max(4, Math.ceil(zoomLevel * 2)).
resolutionMultiplier(d) == Max(4, 2 * d.zoomLevel)

\* The effect of lines 31-124: the canvas with its pixel size (65-66), its
\* displayed size (61-62, 69) and what is drawn in every cell (89-113).
DrawCanvas(d) ==
  LET rows == Len(d.grid)
      cols == Len(d.grid[1])
      size == zoomedCellSize(d)
  IN [width |-> cols * size * resolutionMultiplier(d),
      height |-> rows * size * resolutionMultiplier(d),
      canvasWidth |-> cols * size,
      canvasHeight |-> rows * size,
      cellSize |-> size,
      cells |-> [r \in 1..rows |-> [c \in 1..cols |->
         LET cell == CanvasResolve(d.grid, Null, d.faceColors, r, c)
         IN [fill |-> cell.color, marks |-> DrawMarks(cell.face, size, d.useShading)]]]]

\* downloadPNG, lines 353-355: the copy is scaleFactor times the canvas.
DownloadSize(cv) == [width |-> cv.width * scaleFactor, height |-> cv.height * scaleFactor]

InitCanvas ==
  /\ InitPage
  /\ merge = Null /\ heap = Null /\ num = Null
  /\ \E grid \in MergeGrids, w \in ContainerInputs, h \in ContainerInputs,
        z \in ZoomInputs, shading \in BOOLEAN :
       draw = Some([grid |-> grid, faceColors |-> GreyRamp,
                    maxCanvasWidth |-> w, maxCanvasHeight |-> h,
                    zoomLevel |-> z, useShading |-> shading,
                    canvas |-> Null, png |-> Null])

CanvasFrame == UNCHANGED <<paramVars, imageFile, diceGrid, editedGrid, settings, isProcessing,
                           editUiVars, canvas, tasks, timer, crashed, nextGen, historyVars,
                           lastEdit, used, toast, merge, heap, num>>

\* The component mounts and its effect draws.
CanvasMount ==
  /\ IsNull(Val(draw).canvas)
  /\ draw' = Some([Val(draw) EXCEPT !.canvas = Some(DrawCanvas(Val(draw)))])
  /\ CanvasFrame

\* The zoomLevel prop changes; it is a dependency of the effect (line 124),
\* which draws again.
CanvasZoom(z) ==
  /\ ~IsNull(Val(draw).canvas)
  /\ z # Val(draw).zoomLevel
  /\ LET d == [Val(draw) EXCEPT !.zoomLevel = z]
     IN draw' = Some([d EXCEPT !.canvas = Some(DrawCanvas(d))])
  /\ CanvasFrame

\* downloadPNG on the canvas handed to onCanvasReady.
CanvasDownloadPNG ==
  /\ ~IsNull(Val(draw).canvas)
  /\ draw' = Some([Val(draw) EXCEPT !.png = Some(DownloadSize(Val(Val(draw).canvas)))])
  /\ CanvasFrame

NextCanvas ==
  \/ CanvasMount
  \/ \E z \in ZoomInputs : CanvasZoom(z)
  \/ CanvasDownloadPNG

SpecCanvas == InitCanvas /\ [][NextCanvas]_vars

\* ================================================================ claims
\* The settings a call was started from.
SettingsOf(t) == <<t.width, t.height, t.contrast, t.brightness, t.diceTheme>>

\* C1: last-settings-wins.  Once no call is in flight, the result that
\* was stored last comes from the same settings as the latest-started call
\* whose result was stored: an earlier call never overwrites a later one
\* started from different settings.
C1_LastSettingsWins ==
  (tasks = {} /\ ~IsNull(newestDone)) =>
     SettingsOf(Val(lastDone)) = SettingsOf(Val(newestDone))

\* C2: debounce coalescing.  With an image loaded, a step that changes
\* width, height, contrast, brightness, theme or a mixed colour starts no
\* call of processImage; a call is started for parameters only when the
\* timer expires, and then exactly one, with the current values.
DebouncedParams ==
  <<width, height, contrast, brightness, diceTheme, mixedColor1, mixedColor2>>
C2_DebounceCoalescing ==
  [][ /\ (imageFile # NoFile /\ DebouncedParams' # DebouncedParams)
          => (nextGen' = nextGen /\ tasks' = tasks)
      /\ (timer /\ ~timer' /\ nextGen' # nextGen)
          => (tasks' = tasks \cup {NewTask(nextGen + 1, Closure)})
    ]_vars

\* C3: at most one call of processCurrentImage is waiting for processImage.
C3_OneTaskAtATime == Cardinality(tasks) <= 1

\* C4: a non-null editedGrid has the rows and the columns of diceGrid.
SameShape(g, h) ==
  /\ Len(g) = Len(h)
  /\ \A r \in 1..Len(g) : Len(g[r]) = Len(h[r])
C4_EditedGridShape == ~IsNull(editedGrid) => SameShape(Val(editedGrid), diceGrid)

\* C6: when downloadPNG can run and produces a file, the canvas it copies
\* shows the current diceGrid, editedGrid and settings.
C6_PngIsCurrent ==
  (~crashed /\ PreviewVisible /\ PngProduced) => PngImage = Drawn

\* A step that calls applyTileEdit, and whether its tile is a cell of the
\* override grid it is given.
EditStep == used'.edits = used.edits + 1 /\ ~IsNull(editedGrid)
EditInRange ==
  LET e == Val(lastEdit')
      g == Val(editedGrid)
  IN e.r \in DOMAIN g /\ e.c \in DOMAIN g[e.r]

\* C7: applyTileEdit with a tile outside the override grid leaves the
\* override grid as it was.
C7_OutOfRangeRejected ==
  [][ (EditStep /\ ~EditInRange) => editedGrid' = editedGrid ]_vars

\* C8: locality.  An in-range applyTileEdit(r, c, {face: f}) gives cell
\* (r,c) the face f and keeps its other fields; every other cell, the
\* shape of the grid, diceGrid and settings are unchanged.
C8_EditIsLocal ==
  [][ (EditStep /\ EditInRange /\ HasField(Val(lastEdit').patch, "face")) =>
        LET e == Val(lastEdit')
            g == Val(editedGrid)
            h == Val(editedGrid')
        IN /\ ~IsNull(editedGrid')
           /\ SameShape(h, g)
           /\ h[e.r][e.c].face = e.patch.face
           /\ DOMAIN h[e.r][e.c] = DOMAIN g[e.r][e.c] \cup {"face"}
           /\ \A k \in DOMAIN g[e.r][e.c] \ {"face"} : h[e.r][e.c][k] = g[e.r][e.c][k]
           /\ \A r \in DOMAIN g : \A c \in DOMAIN g[r] :
                (<<r, c>> # <<e.r, e.c>>) => h[r][c] = g[r][c]
           /\ diceGrid' = diceGrid
           /\ settings' = settings
    ]_vars

\* C8 witness: a face edit has been applied to a cell of a grid with other
\* cells, and the cell shows the new face with its generated colour.
C8_Witness ==
  /\ ~IsNull(lastEdit) /\ ~IsNull(editedGrid) /\ ~crashed
  /\ HasField(Val(lastEdit).patch, "face")
  /\ LET e == Val(lastEdit)
         g == Val(editedGrid)
     IN /\ Len(g) > 1
        /\ e.r \in DOMAIN g /\ e.c \in DOMAIN g[e.r]
        /\ HasField(g[e.r][e.c], "face") /\ g[e.r][e.c].face = e.patch.face
        /\ g[e.r][e.c].face # diceGrid[e.r][e.c]


\* C5: the three consumers resolve every cell to the same face and colour.
C5_SameMergeEverywhere ==
  (~IsNull(merge) /\ ~IsNull(Val(merge).csv) /\ ~IsNull(Val(merge).canvas)
     /\ ~IsNull(Val(merge).panel))
  => (Val(merge).csv = Val(merge).canvas /\ Val(merge).canvas = Val(merge).panel)

\* C10: round trip.  The override grid built by a regeneration, resolved
\* with no edit in between, gives every cell the face of the grid and the
\* table's colour of that face, in the CSV and on the canvas.
Expected(grid, table) ==
  [r \in DOMAIN grid |-> [c \in DOMAIN grid[r] |->
     [face |-> grid[r][c], color |-> table[grid[r][c]]]]]
C10_RoundTrip ==
  (~IsNull(merge) /\ Val(merge).fresh) =>
     LET m == Val(merge)
     IN /\ ~IsNull(m.csv) => Val(m.csv) = Expected(m.grid, m.faceColors)
        /\ ~IsNull(m.canvas) => Val(m.canvas) = Expected(m.grid, m.faceColors)

\* C10 witness: a grid of several faces under a table of several colours
\* has been initialised and resolved by both consumers.
C10_Witness ==
  /\ ~IsNull(merge) /\ Val(merge).fresh
  /\ ~IsNull(Val(merge).csv) /\ ~IsNull(Val(merge).canvas)
  /\ Val(merge).faceColors = GreyRamp
  /\ Len(Val(merge).grid) > 1 /\ Len(Val(merge).grid[1]) > 1
  /\ Val(merge).grid[1][1] # Val(merge).grid[1][2]


\* C9: copy-on-write.  Every grid that was kept before later edits still
\* holds, cell by cell, the values it held when it was kept.
C9_CopyOnWrite ==
  ~IsNull(heap) => \A s \in Val(heap).snaps : Deref(Val(heap), s.ref) = s.value

\* C9 witness: a kept grid is no longer the current one, and an in-range
\* edit made since shows in the current grid only.
C9_Witness ==
  /\ ~IsNull(heap)
  /\ \E s \in Val(heap).snaps :
       /\ s.ref # Val(heap).cur
       /\ \E r \in DOMAIN s.value : \E c \in DOMAIN s.value[r] :
            Deref(Val(heap), Val(heap).cur)[r][c] # s.value[r][c]

\* A step in which a call of processCurrentImage stores its result.
StoresResult == lastDone' # lastDone

\* The last applyTileEdit is visible in the override grid eg: the cell it
\* addressed carries every field of its patch.
EditPresent(eg) ==
  /\ ~IsNull(lastEdit)
  /\ LET e == Val(lastEdit)
         cell == CellAt(eg, e.r, e.c)
     IN \A k \in DOMAIN e.patch : HasField(cell, k) /\ cell[k] = e.patch[k]

\* C11: the override grid survives a regeneration that keeps the size.
\* When a call stores its result and its width and height are those of
\* the result stored before it, a tile edit that was present in editedGrid
\* before the step is still present after it.
C11_EditsSurviveRegeneration ==
  [][ ( /\ StoresResult
        /\ ~IsNull(lastDone)
        /\ Val(lastDone').width = Val(lastDone).width
        /\ Val(lastDone').height = Val(lastDone).height
        /\ EditPresent(editedGrid) )
      => EditPresent(editedGrid') ]_vars

\* C12: override wins for the pip colour too.  Wherever the canvas has
\* drawn pips for a cell whose override record has pipColor set, the pips
\* have that colour.
C12_PipOverrideWins ==
  (~IsNull(merge) /\ ~IsNull(Val(merge).pips)) =>
     LET m == Val(merge)
     IN \A r \in DOMAIN m.grid : \A c \in DOMAIN m.grid[r] :
          HasField(CellAt(m.edited, r, c), "pipColor")
            => Val(m.pips)[r][c] = CellAt(m.edited, r, c).pipColor

\* The bounds of section 3: sizes in [10,100] with at most MAX_DICE tiles,
\* contrast and brightness in [0,100].
ValidSize(w, h) == 10 <= w /\ w <= 100 /\ 10 <= h /\ h <= 100 /\ w * h <= MAX_DICE
ValidLevels(k, b) == 0 <= k /\ k <= 100 /\ 0 <= b /\ b <= 100
ProcessStep == ~IsNull(num) /\ Val(num').events # Val(num).events
                 /\ Val(num').last = "processCurrentImage"

\* C13: a regeneration requested with a size outside the bounds, such as
\* 200 x 200, does not call processImage.
C13_InvalidSizeNotProcessed ==
  [][ (ProcessStep /\ Val(num).hasImage /\ ~ValidSize(Val(num).width, Val(num).height))
      => Val(num').calls = Val(num).calls ]_vars

\* C14: every call of processImage receives a valid size and valid contrast
\* and brightness.
C14_CallsAreClamped ==
  ~IsNull(num) =>
     \A call \in Val(num).calls :
        ValidSize(call.width, call.height) /\ ValidLevels(call.contrast, call.brightness)

\* C15: the size step controls keep width and height in [10,100]; each
\* step changes them by 10, capped at 100 and floored at 10, and
\* increaseSize changes nothing at MAX_DICE tiles or more.
SizeInRange(n) == n.width \in 10..100 /\ n.height \in 10..100
StepsBy(old, new, d) == new = Max(10, Min(100, old + d))
C15_StepControlsClamp ==
  [][ LET n == Val(num)
          m == Val(num')
      IN SizeInRange(n) =>
           /\ SizeInRange(m)
           /\ m.last = "decreaseSize"
                => StepsBy(n.width, m.width, -10) /\ StepsBy(n.height, m.height, -10)
           /\ m.last = "increaseSize"
                => IF n.width * n.height >= MAX_DICE
                   THEN m.width = n.width /\ m.height = n.height
                   ELSE StepsBy(n.width, m.width, 10) /\ StepsBy(n.height, m.height, 10) ]_vars

\* C15 witness: the controls have been used at both ends of the range.
C15_Witness ==
  /\ ~IsNull(num)
  /\ Val(num).events = MaxNumEvents
  /\ Val(num).last = "increaseSize"
  /\ Val(num).width = 100 /\ Val(num).height = 30

\* A step in which processCurrentImage runs with no image and nothing else
\* does: the image is absent before and after, and the step's first toast
\* is the one of line 143.
NoImageCall ==
  /\ imageFile = NoFile /\ imageFile' = NoFile
  /\ toast' # toast /\ toast' # <<>>
  /\ Head(toast') = "No image selected"

\* C16: with no image processCurrentImage reports and aborts: no call of
\* processImage is started and diceGrid, editedGrid, settings and
\* isProcessing stay as they were.
C16_NoImageAborts ==
  [][ NoImageCall =>
        /\ toast' = <<"No image selected">>
        /\ tasks' = tasks /\ nextGen' = nextGen
        /\ diceGrid' = diceGrid /\ editedGrid' = editedGrid
        /\ settings' = settings /\ isProcessing' = isProcessing ]_vars

\* C16 witness: Generate was pressed after the image had been cleared, with
\* an override grid left from the earlier generation.
C16_Witness ==
  /\ imageFile = NoFile
  /\ toast = <<"No image selected">>
  /\ ~IsNull(editedGrid)
  /\ tasks = {}

\* A step in which a call ends without storing a result.
FailureStep == tasks' # tasks /\ tasks' \subseteq tasks /\ lastDone' = lastDone

\* C17: when processImage fails the failure is reported, diceGrid,
\* editedGrid and settings keep their values, and no call is started and
\* no timer set in response.
C17_FailureKeepsGrid ==
  [][ FailureStep =>
        /\ toast' = <<"Error processing image">>
        /\ diceGrid' = diceGrid /\ editedGrid' = editedGrid /\ settings' = settings
        /\ nextGen' = nextGen /\ timer' = timer ]_vars

\* C17 witness: a call failed after an earlier one had produced a grid.
C17_Witness ==
  /\ toast = <<"Error processing image">>
  /\ Len(diceGrid) > 0
  /\ ~IsNull(editedGrid)
  /\ tasks = {}

\* Colours the mixed palette can be set to.
PaletteColors == MixedColorInputs \cup ManualColorInputs

\* C18: for every theme and all colours A and B, getFaceColors gives a
\* table with exactly the keys 1..6, all "#000000" for black, all
\* "#FFFFFF" for white, A on the odd and B on the even faces for mixed;
\* and settings.faceColors always has exactly the keys 1..6, uniform
\* whenever settings.theme is black or white.
C18_FaceColorTable ==
  /\ \A th \in Themes, a \in PaletteColors, b \in PaletteColors :
       LET t == getFaceColors(th, a, b)
       IN /\ DOMAIN t = 1..6
          /\ th = "black" => \A f \in 1..6 : t[f] = "#000000"
          /\ th = "white" => \A f \in 1..6 : t[f] = "#FFFFFF"
          /\ th = "mixed" => \A f \in 1..6 : t[f] = IF f \in {1, 3, 5} THEN a ELSE b
  /\ DOMAIN settings.faceColors = 1..6
  /\ settings.theme = "black" => \A f \in 1..6 : settings.faceColors[f] = "#000000"
  /\ settings.theme = "white" => \A f \in 1..6 : settings.faceColors[f] = "#FFFFFF"
  /\ settings.theme = "mixed" =>
       \E a \in PaletteColors, b \in PaletteColors :
          \A f \in 1..6 : settings.faceColors[f] = IF f \in {1, 3, 5} THEN a ELSE b

\* C18 witness: a mosaic generated under the mixed theme with a changed
\* colour A.
C18_Witness ==
  /\ Len(diceGrid) > 0
  /\ settings.theme = "mixed"
  /\ settings.faceColors[1] = "#00aaff" /\ settings.faceColors[2] = "#00aaff"
  /\ tasks = {}

\* The Color column of the CSV: the fourth field of every data row.
CsvColors == {CsvRows[i][4] : i \in 2..Len(CsvRows)}

\* C19: with theme black selected, an image loaded, every regeneration
\* finished (no call in flight, no timer pending) and no tile edited, all
\* data rows of the CSV carry the same colour.
C19_BlackCsvUniform ==
  ( /\ diceTheme = "black" /\ imageFile # NoFile
    /\ tasks = {} /\ ~timer
    /\ Len(diceGrid) > 0 /\ IsNull(lastEdit) )
  => Cardinality(CsvColors) = 1

\* C20: for a non-empty R x C grid the CSV has R*C + 1 rows: the header,
\* then the cells in row-major order, each with its 1-based row and
\* column, its resolved face and its resolved colour in double quotes; for
\* an empty grid nothing is written.
C20_CsvLayout ==
  IF Len(diceGrid) = 0 THEN IsNull(CsvOutput)
  ELSE LET R == Len(diceGrid)
           C == Len(diceGrid[1])
           rows == Val(CsvOutput)
       IN /\ Len(rows) = R * C + 1
          /\ rows[1] = <<"Row", "Column", "Face", "Color">>
          /\ \A r \in 1..R : \A c \in 1..C :
               LET cell == CsvResolve(diceGrid, editedGrid, settings.faceColors, r, c)
               IN rows[(r - 1) * C + c + 1] =
                    <<ToString(r), ToString(c), ToString(cell.face),
                      "\"" \o cell.color \o "\"">>

\* C20 witness: a CSV was downloaded from a 2 x 2 mosaic with an edited face.
C20_Witness ==
  /\ toast = <<"Download started">>
  /\ Len(diceGrid) = 2 /\ Len(diceGrid[1]) = 2
  /\ ~IsNull(lastEdit)
  /\ \E r \in 1..2, c \in 1..2 :
       CsvResolve(diceGrid, editedGrid, settings.faceColors, r, c).face # diceGrid[r][c]

\* The faces of a grid of numbers are dice faces.
FacesInRange(g) == \A r \in DOMAIN g : \A c \in DOMAIN g[r] : g[r][c] \in Faces

\* C21: every cell of diceGrid and every face stored in editedGrid is in
\* 1..6, and so is every face that is drawn or written to the CSV.
C21_FacesInRange ==
  /\ FacesInRange(diceGrid)
  /\ ~IsNull(editedGrid) =>
       \A r \in DOMAIN Val(editedGrid) : \A c \in DOMAIN Val(editedGrid)[r] :
          HasField(Val(editedGrid)[r][c], "face") => Val(editedGrid)[r][c].face \in Faces
  /\ \A r \in DOMAIN diceGrid : \A c \in DOMAIN diceGrid[r] :
       /\ CanvasResolve(diceGrid, editedGrid, settings.faceColors, r, c).face \in Faces
       /\ CsvResolve(diceGrid, editedGrid, settings.faceColors, r, c).face \in Faces

\* C21 witness: after a second generation a tile carries a colour edit and
\* then a face edit, and shows a face the generation did not give it.
C21_Witness ==
  /\ ~crashed /\ ~IsNull(lastEdit) /\ ~IsNull(lastDone) /\ ~IsNull(editedGrid)
  /\ Val(lastDone).gen >= 2
  /\ used.edits = 2
  /\ LET e == Val(lastEdit)
         cell == CellAt(editedGrid, e.r, e.c)
     IN /\ e.r \in DOMAIN diceGrid /\ e.c \in DOMAIN diceGrid[e.r]
        /\ HasField(e.patch, "face")
        /\ HasField(cell, "face") /\ cell.face = e.patch.face /\ cell.face # diceGrid[e.r][e.c]
        /\ HasField(cell, "color") /\ cell.color \in TileColorInputs

\* The cells of a grid that hold the face f.
CellsWith(g, f) == {<<r, c>> \in (DOMAIN g) \X (1..MaxDim) : c \in DOMAIN g[r] /\ g[r][c] = f}

RECURSIVE SumCounts(_, _)
SumCounts(counts, keys) ==
  IF keys = {} THEN 0
  ELSE LET k == CHOOSE x \in keys : TRUE
       IN counts[k] + SumCounts(counts, keys \ {k})

\* C22: with a non-empty grid of R rows and C columns the per-face counts
\* sum to R*C, whiteDiceCount and blackDiceCount are the numbers of cells
\* with face 1 and face 6, and the tile count of the cost is R*C; with an
\* empty grid the tile count of the cost is width*height.
C22_DerivedMetrics ==
  IF Len(diceGrid) > 0
  THEN LET R == Len(diceGrid)
           C == Len(diceGrid[1])
       IN /\ SumCounts(diceColorCounts, DOMAIN diceColorCounts) = R * C
          /\ \A f \in DOMAIN diceColorCounts :
               diceColorCounts[f] = Cardinality(CellsWith(diceGrid, f))
          /\ whiteDiceCount = Cardinality(CellsWith(diceGrid, 1))
          /\ blackDiceCount = Cardinality(CellsWith(diceGrid, 6))
          /\ actualDiceCount = R * C
  ELSE actualDiceCount = width * height

\* C22 witness: a mosaic with a white and a black die, shown while the
\* size settings already differ from it.
C22_Witness ==
  /\ Len(diceGrid) = 2 /\ Len(diceGrid[1]) = 2
  /\ whiteDiceCount = 1 /\ blackDiceCount = 1
  /\ width = 1
  /\ timer

\* C23: with shading on, a cell at or below the visibility threshold is
\* drawn with its fill and one centred dot, a cell above it with its fill
\* and the pip layout of its face; with shading off no pip or dot is drawn.
C23_SmallCellsGetDot ==
  (~IsNull(draw) /\ ~IsNull(Val(draw).canvas)) =>
     LET d == Val(draw)
         cv == Val(d.canvas)
     IN \A r \in DOMAIN d.grid : \A c \in DOMAIN d.grid[r] :
          LET cell == cv.cells[r][c]
          IN /\ cell.fill = d.faceColors[d.grid[r][c]]
             /\ (d.useShading /\ cv.cellSize <= PipThreshold) => cell.marks.kind = "dot"
             /\ (d.useShading /\ cv.cellSize > PipThreshold)
                   => cell.marks = [kind |-> "pips", face |-> d.grid[r][c]]
             /\ ~d.useShading => cell.marks.kind = "none"

\* A step in which downloadPNG makes a file of the canvas on screen.
PngStep ==
  /\ ~IsNull(draw) /\ ~IsNull(Val(draw).canvas)
  /\ Val(draw').canvas = Val(draw).canvas
  /\ Val(draw').png # Val(draw).png

\* C24: the PNG of a grid of R rows and C columns shown with cell size s
\* is C*s*2 pixels wide and R*s*2 pixels high, whatever the resolution
\* multiplier and the zoom of the canvas on screen.
C24_PngPixelSize ==
  [][ PngStep =>
        LET d == Val(draw)
            s == Val(d.canvas).cellSize
        IN Val(Val(draw').png) =
             [width |-> Len(d.grid[1]) * s * scaleFactor,
              height |-> Len(d.grid) * s * scaleFactor] ]_vars

\* The calls of processImage started in a step.
StartedNow == tasks' \ tasks

\* C25: every regeneration started in response to a theme change runs
\* with the newly selected theme: the calls started in the step that
\* changes the theme, and the call the debounce timer starts afterwards,
\* carry the theme selected then, never the one selected before.
C25_ThemeCallsUseNewTheme ==
  [][ /\ (diceTheme' # diceTheme) => \A t \in StartedNow : t.diceTheme = diceTheme'
      /\ (timer /\ ~timer' /\ diceTheme' = diceTheme)
            => \A t \in StartedNow : t.diceTheme = diceTheme ]_vars

\* C26: isProcessing is true exactly while some call of
\* processCurrentImage waits for processImage.
C26_ProcessingTracksCalls == isProcessing <=> (tasks # {})

\* C27: while no image is loaded, that is before the first upload and
\* from a clear until the next upload, diceGrid is empty: neither the
\* debounce timer nor a call that was in flight puts a grid back.
C27_ClearedStaysEmpty == (imageFile = NoFile) => (diceGrid = <<>> /\ ~timer)

\* The mosaic of the loaded image under the current settings, with its
\* override grid, and no generation shown as running.
MosaicOfCurrent ==
  /\ diceGrid = processImage(imageFile, contrast, width, height, brightness, diceTheme = "black")
  /\ Len(diceGrid) = height /\ Len(diceGrid[1]) = width
  /\ editedGrid = Some(initialEdited(diceGrid, getFaceColors(diceTheme, mixedColor1, mixedColor2)))
  /\ ~isProcessing

\* C28: uploading an image eventually yields its mosaic.  When the user
\* gives no input after an upload, the timer fires and every call
\* resolves, the page reaches and keeps the mosaic of the uploaded file.
C28_UploadYieldsMosaic == <>[]((imageFile # NoFile) => MosaicOfCurrent)

====
